---- MODULE Spec2Model ----
(***************************************************************************)
(* A model of jquery.piechart.js: construction of a PieChart (init,        *)
(* Legend, Header, initPieces, display) and its two pointer handlers       *)
(* (onhover, onmouseleave).                                                *)
(*                                                                         *)
(* JavaScript numbers are IEEE-754 doubles.  The fractions of a turn that  *)
(* initPieces computes (percentages[i] / 100 and their running sum) are    *)
(* modelled bit-exactly: a double is a sign and a magnitude counted in     *)
(* units of 2^-59, held in three limbs of 20 bits, and every division and  *)
(* addition rounds to 53 significant bits, ties to even.  Percentages are  *)
(* integers of magnitude at least 1 (or 0), so every value that occurs is  *)
(* a multiple of 2^-59.                                                    *)
(***************************************************************************)
EXTENDS Integers, Sequences, FiniteSets, TLC

\* ------------------------------------------------------------------------
\* IEEE-754 double arithmetic (the JavaScript "/" and "+" of initPieces)
\* ------------------------------------------------------------------------

Base == 2^20

\* number of significant bits of a double
Precision == 53

\* bit length of a small natural number
BitLen(n) == IF n = 0 THEN 0 ELSE CHOOSE k \in 1..31 : 2^(k-1) <= n /\ n < 2^k

\* a magnitude is <<l2, l1, l0>>: l2 * Base^2 + l1 * Base + l0 units of 2^-59
MagZero == <<0, 0, 0>>

MagNorm(l2, l1, l0) ==
  LET c0 == l0 \div Base
      m1 == l1 + c0
      c1 == m1 \div Base
  IN  <<l2 + c1, m1 % Base, l0 % Base>>

MagAdd(a, b) == MagNorm(a[1] + b[1], a[2] + b[2], a[3] + b[3])

MagLess(a, b) ==
  \/ a[1] < b[1]
  \/ a[1] = b[1] /\ a[2] < b[2]
  \/ a[1] = b[1] /\ a[2] = b[2] /\ a[3] < b[3]

\* a - b for a >= b
MagSub(a, b) ==
  LET d0 == a[3] - b[3]
      w0 == IF d0 < 0 THEN 1 ELSE 0
      d1 == a[2] - b[2] - w0
      w1 == IF d1 < 0 THEN 1 ELSE 0
  IN  <<a[1] - b[1] - w1, d1 + w1 * Base, d0 + w0 * Base>>

MagBitLen(m) ==
  IF m[1] > 0 THEN 40 + BitLen(m[1])
  ELSE IF m[2] > 0 THEN 20 + BitLen(m[2])
  ELSE BitLen(m[3])

\* Round the exact value (m + r/d units, 0 <= r < d) to Precision significant
\* bits, to nearest, ties to even.
RoundNearestEven(m, r, d) ==
  LET k    == IF MagBitLen(m) > Precision THEN MagBitLen(m) - Precision ELSE 0
      low  == m[3] % (2^k)
      kept == (m[3] \div (2^k)) % 2
      up   == IF k = 0
                THEN 2 * r > d \/ (2 * r = d /\ kept = 1)
                ELSE \/ 2 * low > 2^k
                     \/ 2 * low = 2^k /\ (r > 0 \/ kept = 1)
  IN  MagNorm(m[1], m[2], m[3] - low + (IF up THEN 2^k ELSE 0))

\* a double: sign (1 or -1) and magnitude; zero is always <<1, MagZero>>
Dbl(s, m) == IF m = MagZero THEN [s |-> 1, m |-> MagZero] ELSE [s |-> s, m |-> m]

DblZero == Dbl(1, MagZero)

\* the exact (unrounded) sum of two values
ExactAdd(x, y) ==
  IF x.s = y.s THEN Dbl(x.s, MagAdd(x.m, y.m))
  ELSE IF MagLess(x.m, y.m) THEN Dbl(y.s, MagSub(y.m, x.m))
  ELSE Dbl(x.s, MagSub(x.m, y.m))

Neg(x) == Dbl(0 - x.s, x.m)

\* JavaScript x + y
DblAdd(x, y) ==
  LET e == ExactAdd(x, y) IN Dbl(e.s, RoundNearestEven(e.m, 0, 1))

\* JavaScript p / 100 for an integer p: long division of |p| * 2^59 by 100,
\* then rounding
DblDiv100(p) ==
  LET a  == IF p < 0 THEN 0 - p ELSE p
      t2 == a * 2^19
      q2 == t2 \div 100
      t1 == (t2 % 100) * Base
      q1 == t1 \div 100
      t0 == (t1 % 100) * Base
      q0 == t0 \div 100
  IN  Dbl(IF p < 0 THEN -1 ELSE 1, RoundNearestEven(<<q2, q1, q0>>, t0 % 100, 100))

\* the double 1.0
DblOne == Dbl(1, <<2^19, 0, 0>>)

DblLess(x, y) ==
  LET e == ExactAdd(y, Neg(x)) IN e.s = 1 /\ e.m # MagZero


\* ------------------------------------------------------------------------
\* Strings and colors.  A string is a sequence of one-character strings.
\* ------------------------------------------------------------------------

UpperCase == <<"A","B","C","D","E","F","G","H","I","J","K","L","M",
               "N","O","P","Q","R","S","T","U","V","W","X","Y","Z">>

LowerCase == <<"a","b","c","d","e","f","g","h","i","j","k","l","m",
               "n","o","p","q","r","s","t","u","v","w","x","y","z">>

HexDigits == <<"0","1","2","3","4","5","6","7","8","9","a","b","c","d","e","f">>

\* String.prototype.toLowerCase
toLowerCase(str) ==
  [i \in 1..Len(str) |->
     IF \E k \in 1..26 : UpperCase[k] = str[i]
       THEN LowerCase[CHOOSE k \in 1..26 : UpperCase[k] = str[i]]
       ELSE str[i]]

\* Number.prototype.toString(16): no leading zeros
RECURSIVE toString16(_)
toString16(n) ==
  IF n < 16 THEN <<HexDigits[n + 1]>>
  ELSE Append(toString16(n \div 16), HexDigits[(n % 16) + 1])

\* rgbToHex: ((r << 16) | (g << 8) | b).toString(16), or the thrown string
InvalidColorComponent == <<"Invalid color component">>

rgbToHex(r, g, b) ==
  IF r > 255 \/ g > 255 \/ b > 255 THEN InvalidColorComponent
  ELSE toString16(r * 65536 + g * 256 + b)

\* ('000000' + s).slice(-6)
PadSlice6(str) ==
  LET t == <<"0","0","0","0","0","0">> \o str
  IN  SubSeq(t, Len(t) - 5, Len(t))

\* the key onhover computes from a pixel
HoverKey(p) == <<"#">> \o PadSlice6(rgbToHex(p.r, p.g, p.b))

HexVal(c) == (CHOOSE k \in 1..16 : HexDigits[k] = toLowerCase(<<c>>)[1]) - 1

\* The RGB triple the canvas paints for a fillStyle / strokeStyle string
\* (the browser's CSS color parsing): #rrggbb, #rgb, or a color keyword.
NamedColors ==
  { [name |-> <<"r","e","d">>,             rgb |-> <<255, 0, 0>>],
    [name |-> <<"o","r","a","n","g","e">>, rgb |-> <<255, 165, 0>>],
    [name |-> <<"y","e","l","l","o","w">>, rgb |-> <<255, 255, 0>>],
    [name |-> <<"g","r","e","e","n">>,     rgb |-> <<0, 128, 0>>],
    [name |-> <<"b","l","u","e">>,         rgb |-> <<0, 0, 255>>],
    [name |-> <<"v","i","o","l","e","t">>, rgb |-> <<238, 130, 238>>] }

CssColor(str) ==
  IF str[1] = "#" /\ Len(str) = 7
    THEN <<HexVal(str[2]) * 16 + HexVal(str[3]),
           HexVal(str[4]) * 16 + HexVal(str[5]),
           HexVal(str[6]) * 16 + HexVal(str[7])>>
  ELSE IF str[1] = "#" /\ Len(str) = 4
    THEN <<HexVal(str[2]) * 17, HexVal(str[3]) * 17, HexVal(str[4]) * 17>>
  ELSE (CHOOSE c \in NamedColors : c.name = toLowerCase(str)).rgb

\* $.fn.piechart.colorSchemes (the first five colors of each), and a list a
\* caller may pass that holds shorthand colors
EASTER ==
  << <<"#", "F", "7", "F", "7", "B", "1">>,
     <<"#", "B", "D", "D", "A", "5", "D">>,
     <<"#", "D", "A", "E", "F", "F", "1">>,
     <<"#", "D", "1", "C", "4", "D", "D">>,
     <<"#", "F", "F", "E", "4", "E", "5">> >>

BLUEBERRY ==
  << <<"#", "e", "3", "e", "3", "e", "3">>,
     <<"#", "a", "a", "a", "7", "b", "a">>,
     <<"#", "5", "2", "7", "1", "9", "e">>,
     <<"#", "2", "e", "2", "e", "5", "9">>,
     <<"#", "8", "0", "4", "0", "7", "0">> >>

SUMMER ==
  << <<"#", "0", "1", "8", "5", "9", "2">>,
     <<"#", "8", "2", "D", "1", "E", "2">>,
     <<"#", "F", "7", "9", "4", "1", "C">>,
     <<"#", "F", "F", "C", "7", "4", "E">>,
     <<"#", "9", "3", "7", "0", "4", "6">> >>

RAINBOW ==
  << <<"r", "e", "d">>,
     <<"o", "r", "a", "n", "g", "e">>,
     <<"y", "e", "l", "l", "o", "w">>,
     <<"g", "r", "e", "e", "n">>,
     <<"b", "l", "u", "e">> >>

SHORTHAND ==
  << <<"#", "f", "0", "0">>,
     <<"#", "0", "F", "0">>,
     <<"#", "0", "0", "f">>,
     <<"#", "f", "f", "0">>,
     <<"#", "0", "f", "f">> >>

ColorLists == {EASTER, BLUEBERRY, SUMMER, RAINBOW, SHORTHAND}

\* defaults.borderColor
DefaultBorderColor == <<"#","f","f","f">>


\* ------------------------------------------------------------------------
\* Bounds of the model and the option values it draws from
\* ------------------------------------------------------------------------

\* the largest number of percentage divisions and of colors
MaxDiv == 3

\* the largest number of labels
MaxLabels == 3

\* the values a percentage may take
PercentValues == {-50, 0, 10, 20, 25, 50, 70, 75, 100, 150}

SeqsUpTo(S, n) == UNION { [1..k -> S] : k \in 0..n }

Min(a, b) == IF a < b THEN a ELSE b

\* the values thrown
NoError == "none"

NotEnoughColors == "Not enough colors given."

InvalidPercentage == "Invalid percentage values"

TypeError == "TypeError"

\* prevPiece = '' (no legend entry remembered); a legend entry's $label
\* object is identified by its index in options.labels
NoPiece == 0

VARIABLES
  options,    \* this.options (percentages is rewritten in place by initPieces)
  input,      \* the percentages as the caller passed them
  phase,      \* "new", "built" (the constructor returned) or "failed" (it threw)
  thrown,     \* what the constructor threw
  dom,        \* the parts appended to the container element
  legend,     \* this.legend: whether it is defined, and its item map
  pieces,     \* this.pieces
  drawn,      \* whether display() drew the pieces
  canvas,     \* the raster: the pixel at each kind of point of the canvas
  bound,      \* whether the mousemove / mouseleave handlers are bound
  prevPiece,  \* this.prevPiece
  currPiece,  \* this.currPiece
  bold,       \* the legend entries that carry the highlight effects
  lastEv,     \* the last pointer event handled, and what it did
  prevEv      \* the pointer event before it

vars == <<options, input, phase, thrown, dom, legend, pieces, drawn, canvas, bound,
          prevPiece, currPiece, bold, lastEv, prevEv>>

\* ------------------------------------------------------------------------
\* Legend
\* ------------------------------------------------------------------------

\* this.item[key] = {label: $label, ...}
ItemPut(item, key, label) ==
  {e \in item : e.key # key} \cup {[key |-> key, label |-> label]}

\* the loop over options.labels; options.colors[i].toLowerCase() throws a
\* TypeError when there is no colors[i].  labels counts the $label elements
\* appended to the legend.
RECURSIVE LegendLoop(_, _, _)
LegendLoop(opts, i, item) ==
  IF i > Len(opts.labels)
    THEN [thrown |-> NoError, item |-> item, labels |-> i - 1]
  ELSE IF i > Len(opts.colors)
    THEN [thrown |-> TypeError, item |-> item, labels |-> i]
  ELSE LegendLoop(opts, i + 1, ItemPut(item, toLowerCase(opts.colors[i]), i))

Legend(opts) == LegendLoop(opts, 1, {})

\* legend.item[hex]: the entry's label, or NoPiece for undefined
ItemGet(item, hex) ==
  IF \E e \in item : e.key = hex
    THEN (CHOOSE e \in item : e.key = hex).label
    ELSE NoPiece

\* ------------------------------------------------------------------------
\* initPieces
\* ------------------------------------------------------------------------

\* the loop of lines 143-150 without line 149 (prevNum = perc)
RECURSIVE RunningTotalLoopStale(_, _, _)
RunningTotalLoopStale(p, i, prevNum) ==
  IF i > Len(p) THEN [thrown |-> NoError, percentages |-> p]
  ELSE IF prevNum > p[i] THEN [thrown |-> InvalidPercentage, percentages |-> p]
  ELSE RunningTotalLoopStale([p EXCEPT ![i] = p[i] - prevNum], i + 1, prevNum)

\* lines 143-150: running totals to shares, in place
RECURSIVE RunningTotalLoop(_, _, _)
RunningTotalLoop(p, i, prevNum) ==
  IF i > Len(p) THEN [thrown |-> NoError, percentages |-> p]
  ELSE IF prevNum > p[i] THEN [thrown |-> InvalidPercentage, percentages |-> p]
  ELSE RunningTotalLoop([p EXCEPT ![i] = p[i] - prevNum], i + 1, p[i])

\* lines 142-152
ChangeFormat(p) ==
  IF Len(p) > 0 /\ p[Len(p)] = 100
    THEN RunningTotalLoop(p, 1, 0)
    ELSE [thrown |-> NoError, percentages |-> p]

\* lines 155-158: for (var i = divisions; i--; ) totalPerc += percentages[i]
RECURSIVE TotalLoop(_, _, _)
TotalLoop(p, i, totalPerc) ==
  IF i = 0 THEN totalPerc ELSE TotalLoop(p, i - 1, totalPerc + p[i])

\* line 167: end: prevPos + (percentages[i]) / 100
RadiansEnd(prevPos, perc) == DblAdd(prevPos, DblDiv100(perc))

\* line 169 leaving prevPos where it was
NextPosStale(radians) == radians.start

\* line 169: prevPos = radians.end
NextPos(radians) == radians.end

\* lines 164-175
RECURSIVE PiecesLoop(_, _, _, _)
PiecesLoop(opts, i, prevPos, ps) ==
  IF i > Len(opts.percentages) THEN ps
  ELSE LET radians == [start |-> prevPos,
                       end   |-> RadiansEnd(prevPos, opts.percentages[i])]
       IN  PiecesLoop(opts, i + 1, NextPos(radians),
                      Append(ps, [radians     |-> radians,
                                  color       |-> opts.colors[i],
                                  borderWidth |-> opts.borderWidth,
                                  borderColor |-> opts.borderColor]))

initPieces(opts) ==
  IF Len(opts.colors) < Len(opts.percentages)
    THEN [thrown |-> NotEnoughColors, percentages |-> opts.percentages, pieces |-> <<>>]
  ELSE LET f == ChangeFormat(opts.percentages)
       IN  IF f.thrown # NoError
             THEN [thrown |-> f.thrown, percentages |-> f.percentages, pieces |-> <<>>]
           ELSE IF TotalLoop(f.percentages, Len(f.percentages), 0) # 100
             THEN [thrown |-> InvalidPercentage, percentages |-> f.percentages,
                   pieces |-> <<>>]
           ELSE [thrown |-> NoError, percentages |-> f.percentages,
                 pieces |-> PiecesLoop([opts EXCEPT !.percentages = f.percentages],
                                       1, DblZero, <<>>)]

\* ------------------------------------------------------------------------
\* The rendered canvas
\* ------------------------------------------------------------------------

\* A wedge can be pointed at when its span has positive length; the wedges do
\* not overlap when no span runs backwards.
Visible(ps, i) ==
  /\ \A j \in 1..Len(ps) : ~DblLess(ps[j].radians.end, ps[j].radians.start)
  /\ DblLess(ps[i].radians.start, ps[i].radians.end)

\* what the sampled point of the canvas can lie on: the transparent
\* background, the fill of a wedge, or (borderWidth !== 0) a stroked outline
Targets(ps) ==
  {[kind |-> "background", slice |-> 0]}
    \cup {[kind |-> "slice", slice |-> i] : i \in {j \in 1..Len(ps) : Visible(ps, j)}}
    \cup {[kind |-> "border", slice |-> i] :
            i \in {j \in 1..Len(ps) : j = 1 /\ ps[j].borderWidth # 0}}

\* Piece.draw: the pixel a point of the canvas holds once the piece is drawn
draw(ps, t) ==
  IF t.kind = "background" THEN [r |-> 0, g |-> 0, b |-> 0, a |-> 0]
  ELSE LET c == IF t.kind = "slice" THEN CssColor(ps[t.slice].color)
                ELSE CssColor(ps[t.slice].borderColor)
       IN  [r |-> c[1], g |-> c[2], b |-> c[3], a |-> 255]

\* display: every piece drawn on the canvas
display(ps) == [t \in Targets(ps) |-> draw(ps, t)]

\* a canvas nothing was drawn on
BlankCanvas == display(<<>>)


\* ------------------------------------------------------------------------
\* new PieChart(element, options): init(), then display()
\* ------------------------------------------------------------------------

NoLegend == [defined |-> FALSE, item |-> {}]

\* init, in the order of its statements: the canvas is appended, then the
\* legend (showLegend), the header, the pieces, and last the two handlers.
\* An exception leaves what was done before it.
init(opts) ==
  LET lg  == Legend(opts)
      d1  == {"canvas"}
      d2  == IF opts.showLegend THEN d1 \cup {"legend"} ELSE d1
      d3  == d2 \cup {"header"}
      ip  == initPieces(opts)
  IN  IF opts.showLegend /\ lg.thrown # NoError
        THEN [thrown |-> lg.thrown, dom |-> d2, legend |-> NoLegend,
              percentages |-> opts.percentages, pieces |-> <<>>, bound |-> FALSE]
      ELSE [thrown |-> ip.thrown, dom |-> d3,
            legend |-> IF opts.showLegend
                         THEN [defined |-> TRUE, item |-> lg.item] ELSE NoLegend,
            percentages |-> ip.percentages, pieces |-> ip.pieces,
            bound |-> ip.thrown = NoError]

NoEvent == [kind |-> "none", target |-> [kind |-> "none", slice |-> 0],
            hit |-> NoPiece, calls |-> <<>>, thrown |-> NoError, before |-> NoPiece]

Construct ==
  /\ phase = "new"
  /\ LET r == init(options)
     IN  /\ phase' = IF r.thrown = NoError THEN "built" ELSE "failed"
         /\ thrown' = r.thrown
         /\ dom' = r.dom
         /\ legend' = r.legend
         /\ options' = [options EXCEPT !.percentages = r.percentages]
         /\ pieces' = r.pieces
         /\ bound' = r.bound
         /\ drawn' = (r.thrown = NoError)
         /\ canvas' = IF r.thrown = NoError THEN display(r.pieces) ELSE BlankCanvas
  /\ prevPiece' = NoPiece
  /\ UNCHANGED <<input, currPiece, bold, lastEv, prevEv>>


\* ------------------------------------------------------------------------
\* The pointer handlers
\* ------------------------------------------------------------------------

\* PieChart.addEffects / PieChart.clearEffects, as the calls they are
AddCall(item) == [fn |-> "addEffects", item |-> item]

ClearCall(item) == [fn |-> "clearEffects", item |-> item]

RECURSIVE ApplyCalls(_, _)
ApplyCalls(b, calls) ==
  IF calls = <<>> THEN b
  ELSE ApplyCalls(IF Head(calls).fn = "addEffects"
                    THEN b \cup {Head(calls).item}
                    ELSE b \ {Head(calls).item},
                  Tail(calls))

\* lines 213-218 without the test prevPiece !== currPiece of line 213
ResolvedCallsAlways(prev, curr) ==
  (IF prev # NoPiece /\ prev # curr THEN <<ClearCall(prev)>> ELSE <<>>)
    \o <<AddCall(curr)>>

\* lines 213-218: the effect calls when the sample resolves to entry curr
ResolvedCalls(prev, curr) ==
  IF prev # curr
    THEN (IF prev # NoPiece THEN <<ClearCall(prev)>> ELSE <<>>) \o <<AddCall(curr)>>
    ELSE <<>>

\* lines 222-225: the effect calls when it does not
UnresolvedCalls(prev) ==
  IF prev # NoPiece THEN <<ClearCall(prev)>> ELSE <<>>

\* the handler onhover() returns, applied to pixel p
onhover(lg, prev, curr, p) ==
  IF rgbToHex(p.r, p.g, p.b) = InvalidColorComponent
    THEN [thrown |-> "Invalid color component", hit |-> NoPiece, calls |-> <<>>,
          prevPiece |-> prev, currPiece |-> curr]
  ELSE IF p.a # 0 /\ ~lg.defined
    \* piechart.legend is undefined: reading .item of it throws
    THEN [thrown |-> TypeError, hit |-> NoPiece, calls |-> <<>>,
          prevPiece |-> prev, currPiece |-> curr]
  ELSE IF p.a # 0 /\ ItemGet(lg.item, HoverKey(p)) # NoPiece
    THEN LET c == ItemGet(lg.item, HoverKey(p))
         IN  [thrown |-> NoError, hit |-> c, calls |-> ResolvedCalls(prev, c),
              prevPiece |-> c, currPiece |-> c]
  ELSE [thrown |-> NoError, hit |-> NoPiece, calls |-> UnresolvedCalls(prev),
        prevPiece |-> NoPiece, currPiece |-> curr]

\* the handler onmouseleave() returns
onmouseleave(prev) ==
  [calls |-> IF prev # NoPiece THEN <<ClearCall(prev)>> ELSE <<>>,
   prevPiece |-> prev]

\* a mousemove event on the canvas
OnHover ==
  /\ bound
  /\ \E t \in DOMAIN canvas :
       \* ctx.getImageData(mouseX, mouseY, 1, 1).data
       LET h == onhover(legend, prevPiece, currPiece, canvas[t])
       IN  /\ prevPiece' = h.prevPiece
           /\ currPiece' = h.currPiece
           /\ bold' = ApplyCalls(bold, h.calls)
           /\ lastEv' = [kind |-> "move", target |-> t, hit |-> h.hit,
                         calls |-> h.calls, thrown |-> h.thrown,
                         before |-> prevPiece]
  /\ prevEv' = lastEv
  /\ UNCHANGED <<options, input, phase, thrown, dom, legend, pieces, drawn, canvas,
                 bound>>

\* a mouseleave event on the canvas
OnMouseLeave ==
  /\ bound
  /\ LET h == onmouseleave(prevPiece)
     IN  /\ prevPiece' = h.prevPiece
         /\ bold' = ApplyCalls(bold, h.calls)
         /\ lastEv' = [kind |-> "leave", target |-> [kind |-> "none", slice |-> 0],
                       hit |-> NoPiece, calls |-> h.calls, thrown |-> NoError,
                       before |-> prevPiece]
  /\ prevEv' = lastEv
  /\ UNCHANGED <<options, input, phase, thrown, dom, legend, pieces, drawn, canvas,
                 bound, currPiece>>

Next == Construct \/ OnHover \/ OnMouseLeave

\* ------------------------------------------------------------------------
\* Specifications
\* ------------------------------------------------------------------------

\* the state before new PieChart(element, settings), for options drawn from
\* the given sets
InitWith(percs, colorss, nLabels, shows, widths) ==
  /\ input \in percs
  /\ \E c \in colorss, n \in nLabels, sh \in shows, w \in widths :
       options = [percentages |-> input, colors |-> c,
                  labels |-> [i \in 1..n |-> "label"], showLegend |-> sh,
                  borderWidth |-> w, borderColor |-> DefaultBorderColor]
  /\ phase = "new"
  /\ thrown = NoError
  /\ dom = {}
  /\ legend = NoLegend
  /\ pieces = <<>>
  /\ drawn = FALSE
  /\ canvas = BlankCanvas
  /\ bound = FALSE
  /\ prevPiece = NoPiece
  /\ currPiece = NoPiece
  /\ bold = {}
  /\ lastEv = NoEvent
  /\ prevEv = NoEvent

Prefixes(list, n) == {SubSeq(list, 1, k) : k \in 1..Min(n, Len(list))}

\* percentage sequences that construction accepts, in both input shapes
HoverPercentages ==
  { <<75, 25>>, <<75, 100>>, <<25, 75, 100>>, <<50, 0, 50>>, <<100>>, <<20, 70, 10>> }

\* charts of every color list, label count and legend setting, under pointer
\* events
Init ==
  InitWith(HoverPercentages,
           UNION {Prefixes(c, MaxDiv) : c \in ColorLists},
           0..MaxLabels, BOOLEAN, {0, 1})

Spec == Init /\ [][Next]_vars

\* charts of every percentage sequence, with the default labels ['', '']
InitGeom ==
  InitWith(SeqsUpTo(PercentValues, MaxDiv), Prefixes(EASTER, MaxDiv),
           {2}, BOOLEAN, {0})

SpecGeom == InitGeom /\ [][Next]_vars

\* ------------------------------------------------------------------------
\* Properties
\* ------------------------------------------------------------------------

RECURSIVE SumOf(_)
SumOf(p) == IF p = <<>> THEN 0 ELSE Head(p) + SumOf(Tail(p))

\* total[i-1], with total[-1] = 0
Before(p, i) == IF i = 1 THEN 0 ELSE p[i - 1]

IsRunningTotal(p) == Len(p) > 0 /\ p[Len(p)] = 100

Differences(p) == [i \in 1..Len(p) |-> p[i] - Before(p, i)]

\* the constructor ran, and got as far as the percentages: enough colors,
\* and a legend (if any) that could be built
ReachedPercentages ==
  /\ phase # "new"
  /\ Len(options.colors) >= Len(input)
  /\ ~(options.showLegend /\ Len(options.labels) > Len(options.colors))

Rejected == phase = "failed" /\ thrown = InvalidPercentage

AcceptedAs(shares) == phase = "built" /\ options.percentages = shares

\* C5: a sequence whose last element is 100 is a running total and is
\* replaced by its successive differences ([75,100] -> [75,25], [25,75,100]
\* -> [25,50,25]), unless some total is below the one before it, which fails
\* with the invalid-percentage error ([75,50,100]); any other sequence is
\* kept as it is; shares that do not sum to exactly 100 fail with the
\* invalid-percentage error, and everything else is accepted.
C5_Normalization ==
  ReachedPercentages =>
    /\ IF IsRunningTotal(input)
         THEN IF \E i \in 1..Len(input) : input[i] < Before(input, i)
                THEN Rejected
                ELSE AcceptedAs(Differences(input))
         ELSE IF SumOf(input) # 100 THEN Rejected ELSE AcceptedAs(input)
    /\ input = <<75, 100>> => AcceptedAs(<<75, 25>>)
    /\ input = <<25, 75, 100>> => AcceptedAs(<<25, 50, 25>>)
    /\ input = <<75, 50, 100>> => Rejected

\* a running total of three was converted and accepted
C5_Witness ==
  /\ ReachedPercentages
  /\ input = <<25, 75, 100>>
  /\ AcceptedAs(<<25, 50, 25>>)

\* C6: for every percentage sequence construction accepts, the shares the
\* slices are built from sum to exactly 100, every share is >= 0, and they
\* are in the input order.
C6_AcceptedShares ==
  phase = "built" =>
    /\ SumOf(options.percentages) = 100
    /\ \A i \in 1..Len(options.percentages) : options.percentages[i] >= 0
    /\ options.percentages =
         (IF IsRunningTotal(input) THEN Differences(input) ELSE input)

Span(i) == pieces[i].radians

\* x - y in JavaScript
DblSub(x, y) == DblAdd(x, Neg(y))

SpanScale ==
  LET fits(k) == \A i \in 1..Len(pieces) :
                   ~MagLess(<<(2^k) * (2^19), 0, 0>>, Span(i).end.m)
  IN  2^(CHOOSE k \in 0..8 : fits(k) /\ \A j \in 0..(k - 1) : ~fits(j))

\* n * 2^-52 * SpanScale, in units of 2^-59
Tolerance == <<0, 0, Len(pieces) * (2^7) * SpanScale>>

\* |x - y| <= Tolerance, the difference taken exactly
Near(x, y) == ~MagLess(Tolerance, ExactAdd(x, Neg(y)).m)

Adds(calls, e) == Cardinality({k \in 1..Len(calls) : calls[k] = AddCall(e)})

SameEntryTwice ==
  /\ lastEv.kind = "move"
  /\ prevEv.kind = "move"
  /\ lastEv.hit # NoPiece
  /\ lastEv.hit = prevEv.hit

C1_LeaveReachesIdle ==
  lastEv.kind = "leave" =>
    /\ prevPiece = NoPiece
    /\ lastEv.before # NoPiece => lastEv.before \notin bold

\* C2: onhover never throws, whatever the options of the chart and wherever
\* the pointer is; a sample that resolves to no legend entry leaves the hover
\* state Idle.
C2_HoverNeverThrows ==
  lastEv.kind = "move" =>
    /\ lastEv.thrown = NoError
    /\ lastEv.hit = NoPiece => prevPiece = NoPiece

\* the pixel painted with a color
Painted(color) ==
  LET c == CssColor(color) IN [r |-> c[1], g |-> c[2], b |-> c[3], a |-> 255]

PairwiseDistinct(colors) ==
  \A i, j \in 1..Len(colors) : i # j => Painted(colors[i]) # Painted(colors[j])

\* C3: in a chart with a legend and pairwise distinct colors, the key
\* computed at hover time from the pixel painted with colors[i] looks up the
\* legend entry of labels[i], for every color that has a label, whether the
\* color is a 6-digit hex string, a shorthand or a named color.
C3_LegendRoundTrip ==
  (phase = "built" /\ legend.defined /\ PairwiseDistinct(options.colors)) =>
    \A i \in 1..Min(Len(options.colors), Len(options.labels)) :
      ItemGet(legend.item, HoverKey(Painted(options.colors[i]))) = i

\* C4: construction with fewer colors than percentages throws the
\* insufficient-colors error with nothing of the chart created: no canvas,
\* header or legend added to the container, no piece created or drawn, no
\* handler bound.
C4_InsufficientColorsAborts ==
  (phase # "new" /\ Len(options.colors) < Len(input)) =>
    /\ phase = "failed"
    /\ thrown = NotEnoughColors
    /\ dom = {}
    /\ pieces = <<>>
    /\ ~drawn
    /\ ~bound

\* C9: a chart constructed with a legend has one piece per share and a
\* legend entry keyed by the lower-cased colors[i] for every share i, however
\* many labels were passed.
C9_EverySliceHasEntry ==
  (phase = "built" /\ options.showLegend) =>
    /\ Len(pieces) = Len(options.percentages)
    /\ \A i \in 1..Len(options.percentages) :
         ItemGet(legend.item, toLowerCase(options.colors[i])) # NoPiece

SixDigitHex(colors) ==
  \A i \in 1..Len(colors) : Len(colors[i]) = 7 /\ colors[i][1] = "#"

\* C10: with pairwise distinct 6-digit hex colors, whenever the last pointer
\* event was a mousemove that resolved to a legend entry, that entry carries
\* the highlight effects and no other entry does.
C10_HoveredIsHighlighted ==
  (/\ lastEv.kind = "move"
   /\ lastEv.hit # NoPiece
   /\ SixDigitHex(options.colors)
   /\ PairwiseDistinct(options.colors)) =>
    bold = {lastEv.hit}

====
